---- MODULE Spec2Model ----
(***************************************************************************)
(* Ply: the patch-lifecycle state machine of plypatch.WorkingRepo and      *)
(* plypatch.PatchRepo.  A working repo (a git history plus a working       *)
(* tree) is kept in correspondence with a patch repo (a series file, an    *)
(* optional included child series, and patch files).                       *)
(*                                                                         *)
(* One action per ply operation (save, restore, resolve, skip, abort,      *)
(* rollback), each the whole method including the calls it makes, and one  *)
(* action per thing the user does between operations.                      *)
(*                                                                         *)
(* Content is abstract: a commit carries a change number c; the working    *)
(* tree of a history is the set of <<kind, c>> pairs of its commits.  What *)
(* git itself does with a patch (applies, reports "already applied",       *)
(* stops on a conflict, dies on a missing file) is fixed by AmApply below. *)
(***************************************************************************)
EXTENDS Naturals, Sequences, FiniteSets, TLC

VARIABLES
    commits,     \* working repo history, oldest first; a commit is [k, c, s, p]
    dirty,       \* working repo: diff-index HEAD is non-empty
    session,     \* .git/rebase-apply: the paused git am, [on, fixed, c, s]
    conflict,    \* <W>/.patch-conflict: the patch name in it, NoPatch if absent
    stats,       \* <W>/.restore-stats: <<updated, removed>>, <<>> if absent
    wfiles,      \* *.patch files lying in the working repo directory
    nameEmail,   \* user.name and user.email are configured
    series,      \* patch repo: the flat entries of <P>/series
    child,       \* patch repo: the flat entries of <P>/sub/series
    files,       \* patch repo: patch name -> content of the patch file
    prHead,      \* patch repo: what its HEAD commit holds, [series, files]
    prMsg,       \* patch repo: message of its HEAD commit, [kind, n, based]
    last,        \* the last operation: [op, res, tried]
    saved,       \* history: the tree right after the initial save, [on, tree]
    link,        \* working repo: the values of git config ply.patchrepo
    dirs,        \* the directories that exist on the file system
    arg,         \* the input handed to a function of the library
    out          \* what that function returned

vars == <<commits, dirty, session, conflict, stats, wfiles, nameEmail,
          series, child, files, prHead, prMsg, last, saved,
          link, dirs, arg, out>>

\* The two repos and what is recorded about them.
repos == <<commits, dirty, session, conflict, stats, wfiles, nameEmail,
           series, child, files, prHead, prMsg, saved>>

\* What the patch lifecycle leaves alone.
aux == <<link, dirs, arg, out>>

-----------------------------------------------------------------------------
(* Bounds of the model and constants of the program.                       *)

MaxCommits == 3
MaxUpstream == 1
MaxStats == 2
NewUpperBound == 50

\* A patch name is <<directory, base name>>; NoPatch stands for None.
NoPatch == <<"", "">>
SubDir == "sub"
Include == <<"-i", SubDir>>

\* The commits a user can make: a change and a subject.  Two of them share
\* a subject, so format-patch gives both the same file name.
UserCommits == { [c |-> 1, s |-> "a"], [c |-> 2, s |-> "b"], [c |-> 3, s |-> "a"] }
Changes == { uc.c : uc \in UserCommits }

\* What upstream can commit: a rewrite of what change c touches ("clash"),
\* or change c itself ("same").
UpstreamMoves == { <<"clash", 1>>, <<"clash", 3>>, <<"same", 1>>, <<"same", 3>> }

BaseCommit == [k |-> "up", c |-> 0, s |-> "", p |-> NoPatch]
NoSession == [on |-> FALSE, fixed |-> FALSE, c |-> 0, s |-> ""]
NoFiles == [n \in {} |-> 0]

-----------------------------------------------------------------------------
(* Sequences and functions.                                                *)

Range(q) == { q[i] : i \in 1..Len(q) }

Contains(q, e) == e \in Range(q)

IndexOf(q, e) == CHOOSE i \in 1..Len(q) : q[i] = e /\ \A j \in 1..(i-1) : q[j] # e

\* list.remove(e): drops the first occurrence.
RemoveFirst(q, e) ==
    LET i == IndexOf(q, e)
    IN  SubSeq(q, 1, i-1) \o SubSeq(q, i+1, Len(q))

\* list.insert(i, e) with a 0-based index, clamped to the end as Python does.
InsertAt(q, i, e) ==
    LET j == IF i > Len(q) THEN Len(q) ELSE i
    IN  SubSeq(q, 1, j) \o <<e>> \o SubSeq(q, j+1, Len(q))

Without(f, n) == [m \in (DOMAIN f) \ {n} |-> f[m]]

With(f, n, v) == [m \in (DOMAIN f) \cup {n} |-> IF m = n THEN v ELSE f[m]]

Raise(s, e) == [s EXCEPT !.exc = e]

-----------------------------------------------------------------------------
(* The working tree and what git am does with a patch.                     *)

Tree(cs) == { <<cs[i].k, cs[i].c>> : i \in 1..Len(cs) }

HasChange(cs, c) == <<"dn", c>> \in Tree(cs) \/ <<"same", c>> \in Tree(cs)

Clashes(cs, c) == <<"clash", c>> \in Tree(cs)

\* The hash of the i-th commit: git hashes a commit with its ancestry.
HashOf(cs, i) == SubSeq(cs, 1, i)

\* git am --3way <patch file>, as Repo.am classifies its outcome.
\* s.tried logs each patch handed to git am with what git did with it.
Tried(s, name, outcome) == [s EXCEPT !.tried = Append(@, <<name, outcome>>)]

AmApply(s, name) ==
    IF name \notin DOMAIN s.files
    THEN \* git dies before it starts a session; the exit code is not 0
         Raise(Tried(s, name, "failed"), "PatchDidNotApplyCleanly")
    ELSE LET f == s.files[name]
         IN  IF HasChange(s.commits, f.c)
             THEN Raise(Tried(s, name, "already"), "PatchAlreadyApplied")
             ELSE IF Clashes(s.commits, f.c) /\ f.x = 0
             THEN Raise([Tried(s, name, "failed")
                           EXCEPT !.session = [on |-> TRUE, fixed |-> FALSE,
                                               c |-> f.c, s |-> f.s],
                                  !.dirty = TRUE],
                        "PatchDidNotApplyCleanly")
             ELSE [Tried(s, name, "applied")
                     EXCEPT !.commits = Append(@, [k |-> "dn", c |-> f.c,
                                                   s |-> f.s, p |-> NoPatch])]

\* Repo._add_annotation on the working repo's HEAD with prefix Ply-Patch.
AddPatchAnnotation(cs, name) ==
    IF cs[Len(cs)].p # NoPatch THEN cs
    ELSE [cs EXCEPT ![Len(cs)].p = name]

-----------------------------------------------------------------------------
(* Detecting applied patches.                                              *)

\* A variant of the scan that looks at one more new commit than the bound.
RECURSIVE AppliedWalkOneMore(_, _, _, _)
AppliedWalkOneMore(cs, i, applied, bound) ==
    IF i = 0 THEN applied
    ELSE IF cs[i].p # NoPatch
         THEN AppliedWalkOneMore(cs, i-1, Append(applied, <<i, cs[i].p>>), bound)
    ELSE IF applied # <<>> THEN applied
    ELSE IF bound >= 0 THEN AppliedWalkOneMore(cs, i-1, applied, bound-1)
    ELSE applied

\* WorkingRepo._applied_patches from commit i down, with new_upper_bound =
\* bound: the pairs (commit, patch name) found so far are in applied.
RECURSIVE AppliedWalk(_, _, _, _)
AppliedWalk(cs, i, applied, bound) ==
    IF i = 0 THEN applied
    ELSE IF cs[i].p # NoPatch
         THEN AppliedWalk(cs, i-1, Append(applied, <<i, cs[i].p>>), bound)
    ELSE IF applied # <<>> THEN applied
    ELSE IF bound > 0 THEN AppliedWalk(cs, i-1, applied, bound-1)
    ELSE applied

AppliedPatches(cs) == AppliedWalk(cs, Len(cs), <<>>, NewUpperBound)

AppliedNames(cs) == { AppliedPatches(cs)[i][2] : i \in 1..Len(AppliedPatches(cs)) }

\* The index of the last upstream commit, 0 for None.
LastUpstream(cs) ==
    LET ap == AppliedPatches(cs)
    IN  IF ap = <<>> THEN 0 ELSE ap[Len(ap)][1] - 1

LastUpstreamHash(cs) == HashOf(cs, LastUpstream(cs))

-----------------------------------------------------------------------------
(* The series.                                                             *)

RECURSIVE Expand(_, _)
Expand(flat, ch) ==
    IF flat = <<>> THEN <<>>
    ELSE IF Head(flat)[1] = "-i"
         THEN [i \in 1..Len(ch) |-> <<Head(flat)[2], ch[i][2]>>] \o Expand(Tail(flat), ch)
         ELSE <<Head(flat)>> \o Expand(Tail(flat), ch)

RecSeries(s) == Expand(s.series, child)

\* A variant of remove_patch that removes the file and leaves the series.
RemovePatchKeepEntry(s, name) ==
    IF name \notin DOMAIN s.files THEN Raise(s, "GitError")
    ELSE [s EXCEPT !.files = Without(@, name)]

\* PatchRepo.remove_patch: git rm inside the series mutation; the series is
\* rewritten only when the block ends without an exception.
RemovePatch(s, name) ==
    IF name \notin DOMAIN s.files THEN Raise(s, "GitError")
    ELSE LET t == [s EXCEPT !.files = Without(@, name)]
         IN  IF ~Contains(s.series, name) THEN Raise(t, "ValueError")
             ELSE [t EXCEPT !.series = RemoveFirst(@, name)]

PatchRepoUncommitted(s) == [series |-> s.series, files |-> s.files] # s.prHead

-----------------------------------------------------------------------------
(* Restore.                                                                *)

StatsOf(st) == IF st = <<>> THEN <<0, 0>> ELSE st

\* A variant that writes the stats file for removals only.
UpdateRestoreStatsOnRemoval(st, du, dr) ==
    IF dr = 0 THEN st ELSE <<StatsOf(st)[1] + du, StatsOf(st)[2] + dr>>

\* A variant that loses the count of conflicted patches.
UpdateRestoreStatsNoUpdated(st, du, dr) == <<StatsOf(st)[1], StatsOf(st)[2] + dr>>

UpdateRestoreStats(st, du, dr) == <<StatsOf(st)[1] + du, StatsOf(st)[2] + dr>>

\* A variant of the restore loop that does not pass over applied names.
RECURSIVE RestoreLoopReapply(_, _, _)
RestoreLoopReapply(s, todo, applied) ==
    IF todo = <<>> THEN s
    ELSE LET name == Head(todo)
             t    == AmApply(s, name)
         IN  IF t.exc = "PatchDidNotApplyCleanly"
             THEN [t EXCEPT !.conflict = name,
                            !.stats = UpdateRestoreStats(@, 1, 0)]
             ELSE IF t.exc = "PatchAlreadyApplied"
             THEN LET r == RemovePatch([t EXCEPT !.exc = ""], name)
                  IN  IF r.exc # "" THEN r
                      ELSE RestoreLoopReapply(
                             [r EXCEPT !.stats = UpdateRestoreStats(@, 0, 1)],
                             Tail(todo), applied)
             ELSE RestoreLoopReapply(
                    [t EXCEPT !.commits = AddPatchAnnotation(@, name)],
                    Tail(todo), applied)

RECURSIVE RestoreLoop(_, _, _)
RestoreLoop(s, todo, applied) ==
    IF todo = <<>> THEN s
    ELSE LET name == Head(todo)
         IN  IF name \in applied THEN RestoreLoop(s, Tail(todo), applied)
             ELSE LET t == AmApply(s, name)
                  IN  IF t.exc = "PatchDidNotApplyCleanly"
                      THEN [t EXCEPT !.conflict = name,
                                     !.stats = UpdateRestoreStats(@, 1, 0)]
                      ELSE IF t.exc = "PatchAlreadyApplied"
                      THEN LET r == RemovePatch([t EXCEPT !.exc = ""], name)
                           IN  IF r.exc # "" THEN r
                               ELSE RestoreLoop(
                                      [r EXCEPT !.stats = UpdateRestoreStats(@, 0, 1)],
                                      Tail(todo), applied)
                      ELSE RestoreLoop(
                             [t EXCEPT !.commits = AddPatchAnnotation(@, name)],
                             Tail(todo), applied)

Endgame(s, msg) ==
    LET st == StatsOf(s.stats)
        m  == IF msg # <<>> THEN [kind |-> "Saving", n |-> msg]
              ELSE [kind |-> "Refreshing", n |-> <<0, st[1], st[2]>>]
        t  == [s EXCEPT !.stats = <<>>]
    IN  IF ~PatchRepoUncommitted(t) THEN t
        ELSE [t EXCEPT !.prHead = [series |-> t.series, files |-> t.files],
                       !.prMsg = [kind |-> m.kind, n |-> m.n,
                                  based |-> LastUpstreamHash(t.commits)]]

\* A variant of restore that does not look for uncommitted changes.
RestoreOpAnyTree(s, msg) ==
    IF ~nameEmail THEN Raise(s, "GitConfigRequired")
    ELSE IF s.session.on THEN Raise(s, "RestoreInProgress")
    ELSE LET t == RestoreLoop(s, RecSeries(s), AppliedNames(s.commits))
         IN  IF t.exc # "" THEN t ELSE Endgame(t, msg)

RestoreOp(s, msg) ==
    IF ~nameEmail THEN Raise(s, "GitConfigRequired")
    ELSE IF s.session.on THEN Raise(s, "RestoreInProgress")
    ELSE IF s.dirty THEN Raise(s, "UncommittedChanges")
    ELSE LET t == RestoreLoop(s, RecSeries(s), AppliedNames(s.commits))
         IN  IF t.exc # "" THEN t ELSE Endgame(t, msg)

-----------------------------------------------------------------------------
(* Rollback, and the three ways out of a conflict.                         *)

\* A variant of rollback that cleans the tree but keeps HEAD where it is.
RollbackOpKeepHead(s, lose_uncommitted) ==
    IF s.dirty /\ ~lose_uncommitted THEN Raise(s, "UncommittedChanges")
    ELSE [s EXCEPT !.dirty = FALSE]

RollbackOp(s, lose_uncommitted) ==
    IF s.dirty /\ ~lose_uncommitted THEN Raise(s, "UncommittedChanges")
    ELSE LET based_on == LastUpstream(s.commits)
         IN  IF based_on # 0
             THEN [s EXCEPT !.commits = SubSeq(@, 1, based_on), !.dirty = FALSE]
             ELSE [s EXCEPT !.dirty = FALSE]

\* git am --abort | --skip | --resolved, as Repo.am classifies its outcome.
AmResume(s, method) ==
    IF ~s.session.on THEN Raise(s, "PatchDidNotApplyCleanly")
    ELSE IF method = "resolved"
         THEN IF ~s.session.fixed THEN Raise(s, "PatchDidNotApplyCleanly")
              ELSE [s EXCEPT !.commits = Append(@, [k |-> "dn", c |-> s.session.c,
                                                     s |-> s.session.s, p |-> NoPatch]),
                             !.session = NoSession, !.dirty = FALSE]
         ELSE [s EXCEPT !.session = NoSession, !.dirty = FALSE]

\* A variant that deletes the conflict sentinel before it runs git am.
ResolveConflictUnlinkFirst(s, method) ==
    IF s.conflict = NoPatch THEN Raise(s, "NothingToResolve")
    ELSE AmResume([s EXCEPT !.conflict = NoPatch], method)

\* A variant that runs git am without looking for the conflict sentinel.
ResolveConflictUnchecked(s, method) ==
    LET t == AmResume(s, method)
    IN  IF t.exc # "" THEN t ELSE [t EXCEPT !.conflict = NoPatch]

ResolveConflict(s, method) ==
    IF s.conflict = NoPatch THEN Raise(s, "NothingToResolve")
    ELSE LET t == AmResume(s, method)
         IN  IF t.exc # "" THEN t ELSE [t EXCEPT !.conflict = NoPatch]

\* A variant of abort that leaves .restore-stats behind.
AbortOpKeepStats(s) ==
    LET t == ResolveConflict(s, "abort")
    IN  IF t.exc # "" THEN t
        ELSE IF t.stats = <<>> THEN Raise(t, "OSError")
        ELSE [t EXCEPT !.commits = IF LastUpstream(@) # 0
                                   THEN SubSeq(@, 1, LastUpstream(@)) ELSE @,
                       !.dirty = FALSE]

AbortOp(s) ==
    LET t == ResolveConflict(s, "abort")
    IN  IF t.exc # "" THEN t
        ELSE IF t.stats = <<>> THEN Raise(t, "OSError")
        ELSE RollbackOp([t EXCEPT !.stats = <<>>], TRUE)

\* A variant of skip that leaves the skipped patch in the patch repo.
SkipOpKeepPatch(s) ==
    LET t == ResolveConflict(s, "skip")
    IN  IF t.exc # "" THEN t ELSE RestoreOp(t, <<>>)

SkipOp(s) ==
    LET t == ResolveConflict(s, "skip")
    IN  IF t.exc # "" THEN t
        ELSE LET r == RemovePatch(t, s.conflict)
             IN  IF r.exc # "" THEN r ELSE RestoreOp(r, <<>>)

-----------------------------------------------------------------------------
(* Save and resolve: regenerating patches and syncing them.                *)

\* utils.meaningful_diff of a regenerated patch against the stored one.
MeaningfulDiff(a, b) == a # b

\* The patch format-patch writes for the i-th commit, after _fixup_patch.
PatchOf(cs, i) ==
    [c |-> cs[i].c, s |-> cs[i].s,
     x |-> IF Clashes(SubSeq(cs, 1, i-1), cs[i].c) THEN 1 ELSE 0]

\* The files left in the working directory: a later file of the same
\* stripped name overwrites an earlier one.
RECURSIVE WriteSources(_, _, _, _)
WriteSources(w, cs, i, n) ==
    IF i > n THEN w
    ELSE WriteSources(With(w, cs[i].s, PatchOf(cs, i)), cs, i+1, n)

\* WorkingRepo._create_patches(since): since is the index of a commit.
SourcePaths(cs, since) == [j \in 1..(Len(cs) - since) |-> <<"", cs[since + j].s>>]

ParentPatchName(cs, since) == cs[since].p

CreatePatches(s, since) ==
    [s EXCEPT !.wfiles = WriteSources(@, s.commits, since + 1, Len(s.commits))]

SkipPrefix(flat, parent) ==
    IF parent = NoPatch THEN {}
    ELSE IF Contains(flat, parent) THEN Range(SubSeq(flat, 1, IndexOf(flat, parent)))
    ELSE Range(flat)

\* PatchRepo._determine_what_changed
DetermineWhatChanged(s, sources, parent) ==
    LET src     == Range(sources)
        exists  == { n \in src : n \in DOMAIN s.files }
        updated == { n \in exists : MeaningfulDiff(s.wfiles[n[2]], s.files[n]) }
        added   == src \ exists
        skipped == (exists \ updated) \cup SkipPrefix(s.series, parent)
    IN  [added |-> added, updated |-> updated, skipped |-> skipped,
         removed |-> ((Range(RecSeries(s)) \ added) \ updated) \ skipped]

RECURSIVE Splice(_, _, _, _)
Splice(entries, sources, base, idx) ==
    IF idx >= Len(sources) THEN entries
    ELSE LET n == sources[idx + 1]
             e == IF Contains(entries, n) THEN RemoveFirst(entries, n) ELSE entries
         IN  Splice(InsertAt(e, base + idx, n), sources, base, idx + 1)

RECURSIVE RemoveAll(_, _)
RemoveAll(entries, names) ==
    IF names = {} THEN entries
    ELSE LET n == CHOOSE m \in names : TRUE
         IN  RemoveAll(RemoveFirst(entries, n), names \ {n})

\* A variant of the series mutation that keeps the entries of the patches
\* sync_patches removed.
UpdateSeriesKeepRemoved(s, d, sources, parent) ==
    IF parent # NoPatch /\ ~Contains(s.series, parent) THEN Raise(s, "ValueError")
    ELSE LET base == IF parent # NoPatch THEN IndexOf(s.series, parent) ELSE 0
         IN  [s EXCEPT !.series = Splice(s.series, sources, base, 0)]

\* The series mutation at the end of sync_patches.
UpdateSeries(s, d, sources, parent) ==
    IF \E n \in d.removed : ~Contains(s.series, n) THEN Raise(s, "ValueError")
    ELSE LET e == RemoveAll(s.series, d.removed)
         IN  IF parent # NoPatch /\ ~Contains(e, parent) THEN Raise(s, "ValueError")
             ELSE LET base == IF parent # NoPatch THEN IndexOf(e, parent) ELSE 0
                  IN  [s EXCEPT !.series = Splice(e, sources, base, 0)]

\* PatchRepo.sync_patches
SyncPatches(s, sources, parent) ==
    LET d      == DetermineWhatChanged(s, sources, parent)
        src    == Range(sources)
        tossed == { n[2] : n \in d.skipped \cap src }
        w1     == [m \in (DOMAIN s.wfiles) \ tossed |-> s.wfiles[m]]
        gone   == d.removed \cap DOMAIN s.files
        f1     == [m \in (DOMAIN s.files) \ gone |-> s.files[m]]
        moved  == { n \in d.added \cup d.updated : n[2] \in DOMAIN w1 }
        f2     == [m \in (DOMAIN f1) \cup moved |->
                     IF m \in moved THEN w1[m[2]] ELSE f1[m]]
        w2     == [m \in (DOMAIN w1) \ { n[2] : n \in moved } |-> w1[m]]
        cnt    == <<Cardinality(d.added), Cardinality(d.updated), Cardinality(d.removed)>>
    IN  IF gone # d.removed
        THEN Raise([s EXCEPT !.wfiles = w1, !.files = f1], "GitError")
        ELSE IF moved # d.added \cup d.updated
        THEN Raise([s EXCEPT !.wfiles = w2, !.files = f2], "IOError")
        ELSE UpdateSeries([s EXCEPT !.wfiles = w2, !.files = f2, !.cnt = cnt],
                          d, sources, parent)

\* A variant of save that takes HEAD as since when none is given.
SaveOpSinceHead(s, since) ==
    IF s.dirty \/ PatchRepoUncommitted(s) THEN Raise(s, "UncommittedChanges")
    ELSE LET from == IF since = 0 THEN Len(s.commits) ELSE since
             t    == SyncPatches(CreatePatches(s, from),
                                 SourcePaths(s.commits, from),
                                 ParentPatchName(s.commits, from))
             num_patches == Len(RecSeries(t))
         IN  IF t.exc # "" THEN t
             ELSE IF num_patches >= Len(t.commits) THEN Raise(t, "GitError")
             ELSE RestoreOp(
                    [t EXCEPT !.commits = SubSeq(@, 1, Len(@) - num_patches)],
                    t.cnt)

SaveOp(s, since) ==
    IF s.dirty \/ PatchRepoUncommitted(s) THEN Raise(s, "UncommittedChanges")
    ELSE LET from == IF since = 0 THEN LastUpstream(s.commits) ELSE since
         IN  IF from = 0 THEN Raise(s, "NoPatchesApplied")
             ELSE LET t == SyncPatches(CreatePatches(s, from),
                                       SourcePaths(s.commits, from),
                                       ParentPatchName(s.commits, from))
                      num_patches == Len(RecSeries(t))
                  IN  IF t.exc # "" THEN t
                      ELSE IF num_patches >= Len(t.commits) THEN Raise(t, "GitError")
                      ELSE RestoreOp(
                             [t EXCEPT !.commits = SubSeq(@, 1, Len(@) - num_patches)],
                             t.cnt)

\* The part of resolve between git am --resolved and the re-invoked
\* restore: the new HEAD commit is regenerated and synced, its parent being
\* the patch annotated on HEAD~1.
ResolveSync(t) ==
    LET from == Len(t.commits) - 1
    IN  SyncPatches(CreatePatches(t, from), SourcePaths(t.commits, from),
                    ParentPatchName(t.commits, from))

ResolveOp(s) ==
    LET t == ResolveConflict(s, "resolved")
    IN  IF t.exc # "" THEN t
        ELSE LET r == ResolveSync(t)
             IN  IF r.exc # "" THEN r
                 ELSE RestoreOp(
                        [r EXCEPT !.commits = AddPatchAnnotation(@, s.conflict)],
                        <<>>)

\* A variant of check that looks for missing files only.
CheckMissingOnly(s) ==
    LET no_file == Range(RecSeries(s)) \ DOMAIN s.files
    IN  IF no_file = {} THEN [status |-> "ok", no_file |-> {}, no_series_entry |-> {}]
        ELSE [status |-> "failed", no_file |-> no_file, no_series_entry |-> {}]

\* PatchRepo.check: the series against the *.patch files in the patch repo.
Check(s) ==
    LET no_file         == Range(RecSeries(s)) \ DOMAIN s.files
        no_series_entry == DOMAIN s.files \ Range(RecSeries(s))
    IN  IF no_file = {} /\ no_series_entry = {}
        THEN [status |-> "ok", no_file |-> {}, no_series_entry |-> {}]
        ELSE [status |-> "failed", no_file |-> no_file,
              no_series_entry |-> no_series_entry]

\* WorkingRepo.status
Status(s) ==
    IF s.conflict # NoPatch THEN "restore-in-progress"
    ELSE IF Len(AppliedPatches(s.commits)) = 0 THEN "no-patches-applied"
    ELSE "all-patches-applied"

-----------------------------------------------------------------------------
(* The state as one record, and writing it back.                           *)

Cur == [commits |-> commits, dirty |-> dirty, session |-> session,
        conflict |-> conflict, stats |-> stats, wfiles |-> wfiles,
        series |-> series, files |-> files, prHead |-> prHead,
        prMsg |-> prMsg, exc |-> "", tried |-> <<>>, cnt |-> <<0, 0, 0>>]

Commit(op, s) ==
    /\ commits' = s.commits
    /\ dirty' = s.dirty
    /\ session' = s.session
    /\ conflict' = s.conflict
    /\ stats' = s.stats
    /\ wfiles' = s.wfiles
    /\ series' = s.series
    /\ files' = s.files
    /\ prHead' = s.prHead
    /\ prMsg' = s.prMsg
    /\ last' = [op |-> op, res |-> s.exc, tried |-> s.tried]
    /\ UNCHANGED <<nameEmail, child>>
    /\ UNCHANGED aux

\* History: saved.on holds from the first save that completes for as long
\* as only save without a since ref, rollback and restore are called and
\* nothing else touches either repo; saved.tree is the working tree right
\* after that save.
NoSaved == [on |-> FALSE, tree |-> {}]

Restore ==
    /\ StatsOf(stats)[1] < MaxStats
    /\ Commit("restore", RestoreOp(Cur, <<>>))
    /\ UNCHANGED saved

\* The refs a user passes as since: none (0), or a commit at or above the
\* newest commit that came from upstream.
TopUpstream == CHOOSE i \in 1..Len(commits) :
                  /\ commits[i].k # "dn"
                  /\ \A j \in (i+1)..Len(commits) : commits[j].k = "dn"

Save == \E since \in {0} \cup (TopUpstream..Len(commits)) :
            LET s == SaveOp(Cur, since)
            IN  /\ Commit("save", s)
                /\ saved' = IF ~saved.on /\ s.exc = ""
                            THEN [on |-> TRUE, tree |-> Tree(s.commits)]
                            ELSE IF since # 0 THEN NoSaved ELSE saved

Resolve == Commit("resolve", ResolveOp(Cur)) /\ saved' = NoSaved

Skip == Commit("skip", SkipOp(Cur)) /\ saved' = NoSaved

Abort == Commit("abort", AbortOp(Cur)) /\ saved' = NoSaved

Rollback == Commit("rollback", RollbackOp(Cur, FALSE)) /\ UNCHANGED saved

-----------------------------------------------------------------------------
(* Init: a fresh working repo linked to a patch repo that is either newly  *)
(* initialized or already holds one patch listed by an included series.    *)

ChildPatch == [c |-> 3, x |-> 0, s |-> "d"]

\* The working repo is linked to its patch repo, the directory /p.
Linked ==
    /\ link = << "/p" >>
    /\ dirs = {"/p"}
    /\ arg = <<>>
    /\ out = <<>>

InitWorking ==
    /\ commits = <<BaseCommit>>
    /\ dirty = FALSE
    /\ session = NoSession
    /\ conflict = NoPatch
    /\ stats = <<>>
    /\ wfiles = NoFiles
    /\ prMsg = [kind |-> "init", n |-> <<0, 0, 0>>, based |-> <<>>]
    /\ last = [op |-> "init", res |-> "", tried |-> <<>>]
    /\ saved = NoSaved

InitRepos ==
    { [series |-> <<>>, child |-> <<>>, files |-> NoFiles],
      [series |-> <<Include>>, child |-> << <<"", "d">> >>,
       files |-> With(NoFiles, <<SubDir, "d">>, ChildPatch)] }

Init ==
    /\ InitWorking
    /\ nameEmail \in BOOLEAN
    /\ \E r \in InitRepos :
         /\ series = r.series
         /\ child = r.child
         /\ files = r.files
         /\ prHead = [series |-> r.series, files |-> r.files]
    /\ Linked

-----------------------------------------------------------------------------
(* What the user does between operations.                                  *)

Env == [op |-> "user", res |-> "", tried |-> <<>>]

Quiet == ~session.on /\ ~dirty

AllUpstream == \A i \in 1..Len(commits) : commits[i].k # "dn"

\* git commit of a new change on top of HEAD.
UserCommit ==
    /\ Quiet
    /\ Len(commits) < MaxCommits
    /\ \E uc \in UserCommits :
         /\ ~HasChange(commits, uc.c)
         /\ commits' = Append(commits, [k |-> "dn", c |-> uc.c, s |-> uc.s, p |-> NoPatch])
    /\ last' = Env
    /\ saved' = NoSaved
    /\ UNCHANGED <<dirty, session, conflict, stats, wfiles, nameEmail,
                   series, child, files, prHead, prMsg>>
    /\ UNCHANGED aux

\* Upstream moves while no downstream commit is in the history: the new
\* commit either rewrites what change c touches or is change c itself.
UpstreamCommit ==
    /\ Quiet
    /\ AllUpstream
    /\ Len(commits) < 1 + MaxUpstream
    /\ \E m \in UpstreamMoves :
         /\ m \notin Tree(commits)
         /\ commits' = Append(commits, [k |-> m[1], c |-> m[2], s |-> "", p |-> NoPatch])
    /\ last' = Env
    /\ saved' = NoSaved
    /\ UNCHANGED <<dirty, session, conflict, stats, wfiles, nameEmail,
                   series, child, files, prHead, prMsg>>
    /\ UNCHANGED aux

\* The user edits a tracked file, or throws the edits away.
Edit ==
    /\ ~session.on
    /\ dirty' = ~dirty
    /\ last' = Env
    /\ saved' = NoSaved
    /\ UNCHANGED <<commits, session, conflict, stats, wfiles, nameEmail,
                   series, child, files, prHead, prMsg>>
    /\ UNCHANGED aux

\* The user fixes the conflicted files and stages them.
FixConflict ==
    /\ session.on
    /\ ~session.fixed
    /\ session' = [session EXCEPT !.fixed = TRUE]
    /\ last' = Env
    /\ saved' = NoSaved
    /\ UNCHANGED <<commits, dirty, conflict, stats, wfiles, nameEmail,
                   series, child, files, prHead, prMsg>>
    /\ UNCHANGED aux

\* git config user.name / user.email.
SetConfig ==
    /\ ~nameEmail
    /\ nameEmail' = TRUE
    /\ last' = Env
    /\ saved' = NoSaved
    /\ UNCHANGED <<commits, dirty, session, conflict, stats, wfiles,
                   series, child, files, prHead, prMsg>>
    /\ UNCHANGED aux

Next ==
    \/ Save
    \/ Restore
    \/ Resolve
    \/ Skip
    \/ Abort
    \/ Rollback
    \/ UserCommit
    \/ UpstreamCommit
    \/ Edit
    \/ FixConflict
    \/ SetConfig

Spec == Init /\ [][Next]_vars

-----------------------------------------------------------------------------
(* Properties of the patch lifecycle.                                      *)

\* The patch names carried by Ply-Patch annotations anywhere on the branch.
Annotated(cs) == { cs[i].p : i \in 1..Len(cs) } \ {NoPatch}

Carriers(cs, n) == { i \in 1..Len(cs) : cs[i].p = n }

\* PatchRepo.series as the repo stands.
SeriesNames == Expand(series, child)

Names(tr) == [i \in 1..Len(tr) |-> tr[i][1]]

IsPrefix(a, b) == Len(a) <= Len(b) /\ SubSeq(b, 1, Len(a)) = a

\* C1: after a restore that returns without raising, the names carried by
\* annotated commits are exactly the names of the recursive series, and
\* each series name is carried by exactly one commit.
C1_RestoreMatchesSeries ==
    (last.op = "restore" /\ last.res = "") =>
        /\ Annotated(commits) = Range(SeriesNames)
        /\ \A n \in Range(SeriesNames) : Cardinality(Carriers(commits, n)) = 1

\* C2: when the conflicted patch sits at position k of the series and the
\* user has fixed the tree, the sync that resolve performs leaves every
\* entry after k in the series with its file, changes no entry other than
\* the conflicted one, and the re-invoked restore hands the entries after k
\* to git am in series order.
C2_ResolveKeepsLaterEntries ==
    (session.on /\ session.fixed /\ Contains(SeriesNames, conflict)) =>
        LET k     == IndexOf(SeriesNames, conflict)
            later == SubSeq(SeriesNames, k + 1, Len(SeriesNames))
            r     == ResolveSync(ResolveConflict(Cur, "resolved"))
            done  == ResolveOp(Cur)
        IN  /\ r.exc = ""
            /\ RecSeries(r) = SeriesNames
            /\ \A n \in Range(later) : n \in DOMAIN r.files /\ r.files[n] = files[n]
            /\ IsPrefix(Names(done.tried), later)

\* C3: between ply operations the sentinel exists exactly when a git am
\* session is paused, so status says restore-in-progress exactly when
\* restore refuses to start.
C3_SentinelIffSession ==
    /\ (conflict # NoPatch) <=> session.on
    /\ nameEmail =>
         ((Status(Cur) = "restore-in-progress")
            <=> (RestoreOp(Cur, <<>>).exc = "RestoreInProgress"))

\* C4: a restore called while the sentinel exists raises RestoreInProgress
\* (also when the tree is dirty) and leaves the sentinel, the restore
\* stats, the commits and the series as they were.
C4_RestoreRefusesInProgress ==
    [][(last'.op = "restore" /\ conflict # NoPatch) =>
          /\ last'.res = "RestoreInProgress"
          /\ UNCHANGED <<conflict, stats, commits, series, files>>]_vars

\* C5: when git am fails on entry p during restore, restore ends with
\* PatchDidNotApplyCleanly, the sentinel holds exactly p, the updated
\* counter grows by one, every entry applied earlier in this run is still
\* annotated on a commit, and p is the last entry handed to git am (the
\* entries being handed over in series order).
C5_ConflictStopsRestore ==
    [][(last'.op = "restore" /\ last'.res = "PatchDidNotApplyCleanly") =>
          LET tr == last'.tried
              n  == Len(tr)
          IN  /\ n >= 1
              /\ tr[n][2] = "failed"
              /\ \A i \in 1..(n-1) : tr[i][2] # "failed"
              /\ conflict' = tr[n][1]
              /\ StatsOf(stats')[1] = StatsOf(stats)[1] + 1
              /\ \A i \in 1..(n-1) :
                     tr[i][2] = "applied" => tr[i][1] \in AppliedNames(commits')
              /\ \A i, j \in 1..n :
                     i < j => IndexOf(SeriesNames, tr[i][1]) < IndexOf(SeriesNames, tr[j][1])
              /\ \A i \in 1..n : Contains(SeriesNames, tr[i][1])]_vars

\* C5's case: a restore that applied one entry and then hit a conflict.
C5_Witness ==
    /\ last.op = "restore"
    /\ last.res = "PatchDidNotApplyCleanly"
    /\ Len(last.tried) = 2
    /\ last.tried[1][2] = "applied"
    /\ session.on
    /\ conflict = last.tried[2][1]

\* C6: for every name of the recursive series, included ones too, that git
\* am reports as already applied during restore: the patch file is removed,
\* the name leaves the recursive series, the removed counter grows by one,
\* no commit is annotated with the name, and restore goes on to the next
\* entry.  The counter is read from .restore-stats when restore stops at
\* a conflict and from the patch-repo commit message when it finishes.
C6_AlreadyAppliedIsRemoved ==
    [][(last'.op = "restore" /\ \E i \in 1..Len(last'.tried) : last'.tried[i][2] = "already") =>
          LET tr   == last'.tried
              gone == { i \in 1..Len(tr) : tr[i][2] = "already" }
          IN  /\ last'.res \in {"", "PatchDidNotApplyCleanly"}
              /\ \A i \in gone :
                    /\ tr[i][1] \notin DOMAIN files'
                    /\ ~Contains(Expand(series', child'), tr[i][1])
                    /\ tr[i][1] \notin Annotated(commits')
              /\ last'.res = "PatchDidNotApplyCleanly" =>
                    StatsOf(stats')[2] = StatsOf(stats)[2] + Cardinality(gone)
              /\ (last'.res = "" /\ prHead' # prHead) =>
                    prMsg'.n[3] = StatsOf(stats)[2] + Cardinality(gone)]_vars

\* C7: after skip returns, or raises because a later patch conflicted, the
\* skipped name is neither in the series nor annotated on any commit.
C7_SkippedNameIsGone ==
    [][(/\ last'.op = "skip"
        /\ \/ last'.res = ""
           \/ last'.res = "PatchDidNotApplyCleanly" /\ last'.tried # <<>>) =>
          /\ ~Contains(Expand(series', child'), conflict)
          /\ conflict \notin Annotated(commits')]_vars

\* C7's case: a skip that removed the conflicted patch and whose restore
\* went on to a later entry.
C7_Witness ==
    /\ last.op = "skip"
    /\ last.res \in {"", "PatchDidNotApplyCleanly"}
    /\ last.tried # <<>>

\* C8: after abort completes, neither the sentinel nor .restore-stats
\* exists.
C8_AbortCleansUp ==
    (last.op = "abort" /\ last.res = "") => (conflict = NoPatch /\ stats = <<>>)

\* C8's case: an abort that completed.
C8_Witness == last.op = "abort" /\ last.res = "" /\ ~session.on

StatusNow == Status(Cur)

HeadOf(cs) == cs[Len(cs)]

C10_TreeSurvivesRoundTrips ==
    (saved.on /\ StatusNow = "all-patches-applied") => Tree(commits) = saved.tree

\* C11: every patch-repo commit written when a restore completes (called
\* directly or from save, resolve or skip) carries a Ply-Based-On value
\* that is the hash of an existing working-repo commit, the unannotated
\* commit directly below the oldest applied patch; also when the restore
\* removed every patch as already applied.
C11_BasedOnIsBoundaryCommit ==
    [][(prHead' # prHead) =>
          LET b == prMsg'.based
          IN  /\ b # <<>>
              /\ Len(b) <= Len(commits')
              /\ b = HashOf(commits', Len(b))
              /\ HeadOf(b).p = NoPatch
              /\ Len(b) < Len(commits') => commits'[Len(b) + 1].p # NoPatch]_vars

\* C12: in every reachable state, also while a restore is interrupted by a
\* conflict, every patch name annotated on a commit has an entry in the
\* series, and annotated commits from oldest to newest follow the order of
\* their entries in the series.
C12_AnnotatedFollowSeries ==
    /\ Annotated(commits) \subseteq Range(SeriesNames)
    /\ \A i, j \in 1..Len(commits) :
          (i < j /\ commits[i].p # NoPatch /\ commits[j].p # NoPatch) =>
             IndexOf(SeriesNames, commits[i].p) < IndexOf(SeriesNames, commits[j].p)

-----------------------------------------------------------------------------
(* A deeper history: with the author's name configured and a patch repo    *)
(* that starts empty, the user commits up to MaxDeep - 1 changes on top of *)
(* upstream and calls save, rollback and restore.                          *)

MaxDeep == 4

InitDeep == Init /\ nameEmail /\ series = <<>>

UserCommitDeep ==
    /\ Quiet
    /\ Len(commits) < MaxDeep
    /\ \E uc \in UserCommits :
         /\ ~HasChange(commits, uc.c)
         /\ commits' = Append(commits, [k |-> "dn", c |-> uc.c, s |-> uc.s, p |-> NoPatch])
    /\ last' = Env
    /\ saved' = NoSaved
    /\ UNCHANGED <<dirty, session, conflict, stats, wfiles, nameEmail,
                   series, child, files, prHead, prMsg>>
    /\ UNCHANGED aux

NextDeep == Save \/ Restore \/ Rollback \/ UserCommitDeep

SpecDeep == InitDeep /\ [][NextDeep]_vars

\* C13: after any sequence of ply operations the annotated commits form
\* one contiguous block of history: no unannotated commit lies between two
\* annotated commits, also after a save whose since ref is an unannotated
\* commit above already applied patches.
C13_AnnotatedBlockIsContiguous ==
    \A i, j, k \in 1..Len(commits) :
        (i < j /\ j < k /\ commits[i].p # NoPatch /\ commits[k].p # NoPatch) =>
            commits[j].p # NoPatch

\* The refs save can sync from in the current state, and the state
\* sync_patches leaves for one of them.
SyncRefs ==
    IF dirty \/ PatchRepoUncommitted(Cur) THEN {}
    ELSE (TopUpstream..Len(commits)) \cup ({LastUpstream(commits)} \ {0})

SyncedFrom(from) ==
    SyncPatches(CreatePatches(Cur, from), SourcePaths(commits, from),
                ParentPatchName(commits, from))

NoDuplicates(q) == \A i, j \in 1..Len(q) : q[i] = q[j] => i = j

SourcesFollowParent(t, sources, parent) ==
    LET base == IF parent = NoPatch THEN 0 ELSE IndexOf(t.series, parent)
    IN  /\ parent # NoPatch => Contains(t.series, parent)
        /\ base + Len(sources) <= Len(t.series)
        /\ SubSeq(t.series, base + 1, base + Len(sources)) = sources
        /\ NoDuplicates(t.series)

\* C14: when sync_patches(sources, parent) returns, the series holds the
\* source patch names as one contiguous run in input order right after
\* the parent entry (at position 0 without a parent), and no entry twice.
C14_SourcesFollowParent ==
    \A from \in SyncRefs :
        LET t == SyncedFrom(from)
        IN  t.exc = "" =>
               SourcesFollowParent(t, SourcePaths(commits, from),
                                   ParentPatchName(commits, from))

\* C15: a restore, and a restore re-invoked by resolve or skip, hands
\* patches to git am strictly in series order, never hands over a name
\* annotated on an applied commit, and every patch it applies had no
\* commit before the step and has exactly one after it, so that no entry
\* is applied twice across the interruptions of one restore.
C15_AppliedOncePerRestore ==
    [][last'.op \in {"restore", "resolve", "skip"} =>
          LET tr == last'.tried
          IN  /\ \A i \in 1..Len(tr) : Contains(SeriesNames, tr[i][1])
              /\ \A i, j \in 1..Len(tr) :
                    i < j => IndexOf(SeriesNames, tr[i][1]) < IndexOf(SeriesNames, tr[j][1])
              /\ \A i \in 1..Len(tr) : tr[i][1] \notin AppliedNames(commits)
              /\ \A i \in 1..Len(tr) :
                    tr[i][2] = "applied" =>
                       /\ Carriers(commits, tr[i][1]) = {}
                       /\ Cardinality(Carriers(commits', tr[i][1])) = 1]_vars

C15_Witness ==
    /\ last.op = "skip"
    /\ last.res = ""
    /\ \E n \in Annotated(commits) :
          /\ Contains(SeriesNames, n)
          /\ n \notin Range(Names(last.tried))

\* C16: with uncommitted changes in the working repo, rollback (called
\* without lose_uncommitted) raises UncommittedChanges and changes nothing;
\* otherwise it resets hard to the last upstream commit when applied
\* patches exist and to HEAD when none exist, and status is then
\* no-patches-applied.
C16_RollbackResetsToUpstream ==
    [][last'.op = "rollback" =>
          IF dirty
          THEN /\ last'.res = "UncommittedChanges"
               /\ UNCHANGED <<commits, dirty, session, conflict, stats, wfiles,
                              series, files, prHead, prMsg>>
          ELSE /\ last'.res = ""
               /\ commits' = IF AppliedPatches(commits) # <<>>
                             THEN SubSeq(commits, 1, LastUpstream(commits))
                             ELSE commits
               /\ ~dirty'
               /\ Status(Cur)' = "no-patches-applied"]_vars

\* C17: rollback called on a clean tree when no patches are applied fails
\* with NoPatchesApplied.
C17_RollbackNeedsAppliedPatches ==
    [][(last'.op = "rollback" /\ ~dirty /\ AppliedPatches(commits) = <<>>) =>
          last'.res = "NoPatchesApplied"]_vars

\* C18: with both repos clean, save without a since argument does what
\* save with the last upstream commit as since does when applied patches
\* exist; when none exist it raises NoPatchesApplied and leaves the
\* working repo, the series and the patch files as they were.
C18_SaveWithoutSince ==
    (~dirty /\ ~PatchRepoUncommitted(Cur)) =>
        LET r == SaveOp(Cur, 0)
        IN  IF AppliedPatches(commits) # <<>>
            THEN r = SaveOp(Cur, LastUpstream(commits))
            ELSE /\ r.exc = "NoPatchesApplied"
                 /\ r.commits = commits
                 /\ r.dirty = dirty
                 /\ r.wfiles = wfiles
                 /\ r.series = series
                 /\ r.files = files

C18_Witness ==
    /\ last.op = "save"
    /\ last.res = "NoPatchesApplied"
    /\ Len(commits) > 1
    /\ series # <<>>

\* What a refused call leaves alone: commits, tree, session, sentinel,
\* stats file, generated files, series, patch files and patch-repo HEAD.
NothingChanged ==
    UNCHANGED <<commits, dirty, session, conflict, stats, wfiles,
                series, files, prHead, prMsg>>

\* C19: save raises UncommittedChanges when the working repo or the patch
\* repo has uncommitted changes, restore raises it when the working repo
\* has them, and in both cases no commit, patch file, series entry,
\* sentinel or stats file is changed.
C19_UncommittedChangesRefused ==
    [][(\/ last'.op = "save" /\ (dirty \/ PatchRepoUncommitted(Cur))
        \/ last'.op = "restore" /\ dirty) =>
          (last'.res = "UncommittedChanges" /\ NothingChanged)]_vars

\* C19 as the code has it: restore looks at user.name and user.email and
\* at a git am session in progress before it looks at the tree, and
\* refuses with GitConfigRequired or RestoreInProgress in those cases.
C19_UncommittedChangesRefusedInOrder ==
    [][/\ (last'.op = "save" /\ (dirty \/ PatchRepoUncommitted(Cur))) =>
             (last'.res = "UncommittedChanges" /\ NothingChanged)
       /\ (last'.op = "restore" /\ dirty) =>
             /\ last'.res = IF ~nameEmail THEN "GitConfigRequired"
                            ELSE IF session.on THEN "RestoreInProgress"
                            ELSE "UncommittedChanges"
             /\ NothingChanged]_vars

C19_Witness ==
    /\ last.op = "restore"
    /\ last.res = "UncommittedChanges"
    /\ dirty
    /\ series # <<>>

\* C20: a save that fails with GitConfigRequired, user.name or user.email
\* not being configured, has mutated nothing: the series, the patch files
\* and the working-repo history are those of before the call.
C20_SaveChecksConfigFirst ==
    [][(last'.op = "save" /\ last'.res = "GitConfigRequired") =>
          UNCHANGED <<series, files, commits>>]_vars

\* C21: resolve, skip and abort called when the conflict sentinel does
\* not exist raise NothingToResolve, hand nothing to git am and change
\* neither repo nor the restore-stats file.
C21_NothingToResolve ==
    [][(last'.op \in {"resolve", "skip", "abort"} /\ conflict = NoPatch) =>
          /\ last'.res = "NothingToResolve"
          /\ last'.tried = <<>>
          /\ NothingChanged]_vars

C21_Witness ==
    /\ last.op \in {"resolve", "skip", "abort"}
    /\ last.res = "NothingToResolve"
    /\ series # <<>>
    /\ Annotated(commits) # {}

-----------------------------------------------------------------------------
(* Link and unlink.  The file system holds the patch repo /p, a symbolic   *)
(* link /l to it and, in some runs, a second directory /q; /x is never     *)
(* there.  "/p/" is /p as the user may type it.                            *)

RawPaths == {"/p", "/p/", "/l", "/q", "/x"}

\* os.path.abspath(os.path.expanduser(path))
Abspath(path) == IF path = "/p/" THEN "/p" ELSE path

\* The directory a path leads to, following the symbolic link.
RealDir(path) == IF path = "/l" THEN "/p" ELSE path

\* os.path.exists
PathExists(path) == RealDir(path) \in dirs

\* os.path.samefile of two paths that exist
SameFile(a, b) == RealDir(a) = RealDir(b)

\* WorkingRepo.patch_repo_path: git config --get, <<>> for None.
PatchRepoPath(ln) == IF ln = <<>> THEN <<>> ELSE << ln[Len(ln)] >>

\* A variant of link that adds the value whatever is stored.
LinkOpAddAlways(ln, path) ==
    LET patch_repo_path == Abspath(path)
    IN  IF ~PathExists(patch_repo_path) THEN [link |-> ln, exc |-> "PathNotFound"]
        ELSE [link |-> Append(ln, patch_repo_path), exc |-> ""]

\* WorkingRepo.link
LinkOp(ln, path) ==
    LET patch_repo_path == Abspath(path)
    IN  IF ~PathExists(patch_repo_path) THEN [link |-> ln, exc |-> "PathNotFound"]
        ELSE IF PatchRepoPath(ln) # <<>>
        THEN LET existing == Abspath(PatchRepoPath(ln)[1])
             IN  IF ~PathExists(existing) THEN [link |-> ln, exc |-> "OSError"]
                 ELSE IF SameFile(existing, patch_repo_path)
                 THEN [link |-> ln, exc |-> "AlreadyLinkedToSamePatchRepo"]
                 ELSE [link |-> ln, exc |-> "AlreadyLinkedToDifferentPatchRepo"]
        ELSE [link |-> Append(ln, patch_repo_path), exc |-> ""]

\* WorkingRepo.unlink: git config --unset refuses a key with several values.
UnlinkOp(ln) ==
    IF PatchRepoPath(ln) = <<>> THEN [link |-> ln, exc |-> "NoLinkedPatchRepo"]
    ELSE IF Len(ln) > 1 THEN [link |-> ln, exc |-> "GitException"]
    ELSE [link |-> <<>>, exc |-> ""]

Link ==
    \E path \in RawPaths :
        LET r == LinkOp(link, path)
        IN  /\ link' = r.link
            /\ last' = [op |-> "link", res |-> r.exc, tried |-> <<>>, path |-> path]
            /\ UNCHANGED <<repos, dirs, arg, out>>

Unlink ==
    LET r == UnlinkOp(link)
    IN  /\ link' = r.link
        /\ last' = [op |-> "unlink", res |-> r.exc, tried |-> <<>>]
        /\ UNCHANGED <<repos, dirs, arg, out>>

InitLink ==
    /\ InitWorking
    /\ nameEmail \in BOOLEAN
    /\ \E r \in InitRepos :
         /\ series = r.series
         /\ child = r.child
         /\ files = r.files
         /\ prHead = [series |-> r.series, files |-> r.files]
    /\ link \in {<<>>, << "/p" >>}
    /\ dirs \in {{"/p"}, {"/p", "/q"}}
    /\ arg = <<>>
    /\ out = <<>>

NextLink == Link \/ Unlink

SpecLink == InitLink /\ [][NextLink]_vars

\* C22: the working repo stores at most one ply.patchrepo value; link on
\* a linked repo raises AlreadyLinkedToSamePatchRepo or
\* AlreadyLinkedToDifferentPatchRepo according to whether the path leads
\* to the stored directory, link to a path that does not exist raises
\* PathNotFound, unlink on an unlinked repo raises NoLinkedPatchRepo, and
\* every failing call leaves the stored link unchanged.
C22_AtMostOneLink ==
    [][/\ Len(link') <= 1
       /\ last'.op = "link" =>
             LET path == Abspath(last'.path)
             IN  /\ ~PathExists(path) => last'.res = "PathNotFound"
                 /\ (PathExists(path) /\ link # <<>>) =>
                       last'.res = IF RealDir(path) = RealDir(link[1])
                                   THEN "AlreadyLinkedToSamePatchRepo"
                                   ELSE "AlreadyLinkedToDifferentPatchRepo"
                 /\ (PathExists(path) /\ link = <<>>) =>
                       (last'.res = "" /\ link' = << path >>)
                 /\ last'.res # "" => link' = link
       /\ last'.op = "unlink" =>
             IF link = <<>>
             THEN last'.res = "NoLinkedPatchRepo" /\ link' = link
             ELSE last'.res = "" /\ link' = <<>>]_vars

C22_Witness ==
    /\ last.op = "link"
    /\ last.res = "AlreadyLinkedToDifferentPatchRepo"
    /\ link = << "/l" >>

PlyOps == {"save", "restore", "resolve", "skip", "abort", "rollback"}

\* C23: status is restore-in-progress exactly when the sentinel exists,
\* otherwise no-patches-applied exactly when no applied patch is detected,
\* otherwise all-patches-applied; and right after a ply operation a status
\* of all-patches-applied means every series entry is annotated on some
\* commit of the working repo.
C23_StatusTellsWhatIsApplied ==
    /\ StatusNow = "restore-in-progress" <=> conflict # NoPatch
    /\ conflict = NoPatch =>
          (StatusNow = "no-patches-applied" <=> AppliedPatches(commits) = <<>>)
    /\ StatusNow \in {"restore-in-progress", "no-patches-applied", "all-patches-applied"}
    /\ (last.op \in PlyOps /\ StatusNow = "all-patches-applied") =>
          Range(SeriesNames) \subseteq Annotated(commits)

-----------------------------------------------------------------------------
(* The patch normalizer.  A patch is the sequence of its lines; what the   *)
(* normalizer asks of a line (how it starts, whether it is blank, whether  *)
(* it contains Ply-Patch:) is given line by line below.                    *)

MaxBlank == 3

FromSha == "From 15f7e04 Mon Sep 17 00:00:00 2001"

FromPly == "From ply Mon Sep 17 00:00:00 2001"

FromAuthor == "From: Rick Harris"

DiffGit == "diff --git a/README b/README"

PlyPatchLine == "Ply-Patch: foo.patch"

PATCH_GIT_VERSION == "1.8.3"

GitVersions == {"1.8.3.1.245.g39fd762", "2.39.1"}

\* line.startswith('From')
StartsWithFrom(line) == line \in {FromSha, FromPly, FromAuthor, "From: ply Harris"}

\* parts = line.split(' '); parts[1] = FROM_SHA1_VALUE; ' '.join(parts)
ReplaceSecondWord(line) ==
    IF line \in {FromSha, FromPly} THEN FromPly
    ELSE IF line \in {FromAuthor, "From: ply Harris"} THEN "From: ply Harris"
    ELSE line

\* line[0].isdigit() and '.' in line
LooksLikeVersion(line) == line \in GitVersions \cup {PATCH_GIT_VERSION}

\* not line.strip()
IsBlank(line) == line \in {"", " "}

\* The least and the greatest index whose line satisfies a test, 0 if none.
FirstFrom(lines) ==
    IF \E i \in 1..Len(lines) : StartsWithFrom(lines[i])
    THEN CHOOSE i \in 1..Len(lines) :
            /\ StartsWithFrom(lines[i])
            /\ \A j \in 1..(i-1) : ~StartsWithFrom(lines[j])
    ELSE 0

LastVersion(lines) ==
    IF \E i \in 1..Len(lines) : LooksLikeVersion(lines[i])
    THEN CHOOSE i \in 1..Len(lines) :
            /\ LooksLikeVersion(lines[i])
            /\ \A j \in (i+1)..Len(lines) : ~LooksLikeVersion(lines[j])
    ELSE 0

FirstDiff(lines) ==
    IF \E i \in 1..Len(lines) : lines[i] = DiffGit
    THEN CHOOSE i \in 1..Len(lines) :
            /\ lines[i] = DiffGit
            /\ \A j \in 1..(i-1) : lines[j] # DiffGit
    ELSE 0

Malformed == << "Exception: Malformed patch" >>

ReplaceFromSha1(lines) ==
    IF FirstFrom(lines) = 0 THEN Malformed
    ELSE [lines EXCEPT ![FirstFrom(lines)] = ReplaceSecondWord(@)]

ReplaceGitVersion(lines) ==
    IF LastVersion(lines) = 0 THEN Malformed
    ELSE [lines EXCEPT ![LastVersion(lines)] = PATCH_GIT_VERSION]

RemovePlyPatchAnnotation(lines) ==
    LET Keep(line) == line # PlyPatchLine
    IN  SelectSeq(lines, Keep)

DeleteAt(lines, i) == SubSeq(lines, 1, i - 1) \o SubSeq(lines, i + 1, Len(lines))

\* idx of the code is FirstDiff(lines) - 1
RemoveTrailingExtraBlankLinesFromSubject(lines) ==
    LET d == FirstDiff(lines)
    IN  IF d = 0 THEN lines
        ELSE IF d - 1 < 2 THEN lines
        ELSE IF IsBlank(lines[d - 1]) /\ IsBlank(lines[d - 2]) THEN DeleteAt(lines, d - 1)
        ELSE lines

\* A variant of the normalizer that keeps the commit hash.
FixupPatchKeepSha(original) ==
    LET l2 == ReplaceGitVersion(original)
    IN  IF l2 = Malformed THEN Malformed
        ELSE RemoveTrailingExtraBlankLinesFromSubject(RemovePlyPatchAnnotation(l2))

\* fixup_patch
FixupPatch(original) ==
    LET l1 == ReplaceFromSha1(original)
        l2 == IF l1 = Malformed THEN Malformed ELSE ReplaceGitVersion(l1)
    IN  IF l2 = Malformed THEN Malformed
        ELSE RemoveTrailingExtraBlankLinesFromSubject(RemovePlyPatchAnnotation(l2))

Blanks(n) == [i \in 1..n |-> ""]

\* What git format-patch writes for a commit: n1 blank lines after the
\* subject, the annotation of an applied commit, n2 blank lines, the diff
\* of one or two files and the signature.
RawPatch(n1, annotated, n2, twoFiles, version) ==
    << FromSha, FromAuthor, "Subject: Bar" >>
    \o Blanks(n1)
    \o (IF annotated THEN << PlyPatchLine >> ELSE <<>>)
    \o Blanks(n2)
    \o << DiffGit, "+Bar" >>
    \o (IF twoFiles THEN << DiffGit, "+Baz" >> ELSE <<>>)
    \o << "-- ", version, "" >>

RawPatches ==
    { RawPatch(n1, a, n2, f, v) :
        n1 \in 1..MaxBlank, a \in BOOLEAN, n2 \in 0..MaxBlank,
        f \in BOOLEAN, v \in GitVersions }

InitFixup ==
    /\ InitWorking
    /\ nameEmail = TRUE
    /\ series = <<>>
    /\ child = <<>>
    /\ files = NoFiles
    /\ prHead = [series |-> <<>>, files |-> NoFiles]
    /\ link = << "/p" >>
    /\ dirs = {"/p"}
    /\ arg \in RawPatches
    /\ out = <<>>

\* The normalizer applied to a raw patch.
Fixup ==
    /\ last.op = "init"
    /\ out' = FixupPatch(arg)
    /\ last' = [op |-> "fixup_patch", res |-> "", tried |-> <<>>]
    /\ UNCHANGED <<repos, link, dirs, arg>>

\* The normalizer applied to what it returned.
FixupAgain ==
    /\ last.op = "fixup_patch"
    /\ arg' = out
    /\ out' = FixupPatch(out)
    /\ last' = [op |-> "fixup_again", res |-> "", tried |-> <<>>]
    /\ UNCHANGED <<repos, link, dirs>>

NextFixup == Fixup \/ FixupAgain

SpecFixup == InitFixup /\ [][NextFixup]_vars

\* C24: the patch normalizer is idempotent: normalizing what it returned
\* for a raw patch, also one with three or more blank lines left before
\* the first diff --git line, returns the same lines again.
C24_FixupIdempotent ==
    last.op = "fixup_again" => out = arg

\* A raw patch with the hash of its first line and the version of its
\* signature replaced and the Ply-Patch lines left out, nothing else
\* touched.
Rewritten(raw) ==
    LET r == [i \in 1..Len(raw) |->
                 IF i = 1 THEN FromPly
                 ELSE IF i = Len(raw) - 1 THEN PATCH_GIT_VERSION
                 ELSE raw[i]]
        NoAnnotation(line) == line # PlyPatchLine
    IN  SelectSeq(r, NoAnnotation)

-----------------------------------------------------------------------------
(* The meaningful-diff comparator.  It reads the unified diff of two patch *)
(* files; the diff is the sequence of its changes, each a removed and an   *)
(* added line.  A line of a patch file is an index line (SHAs and mode     *)
(* bits), a hunk header (line numbers and the text after the second @@)    *)
(* or any other text.                                                      *)

MaxChanges == 2

IndexLine(shas, mode) == [kind |-> "index", id |-> shas, rest |-> mode]

HunkHeader(numbers, context) == [kind |-> "hunk", id |-> numbers, rest |-> context]

TextLine(text) == [kind |-> "text", id |-> text, rest |-> ""]

PatchLines ==
    { IndexLine(s, m) : s \in {"bb67d0c..d9036a9", "dc13c14..7273178"},
                        m \in {"100644", "100744"} }
    \cup { HunkHeader(n, c) : n \in {"-2491,8 +2519,8", "-2490,8 +2518,8"},
                              c \in {"class API(base.Base):", "class QuotaTestCase:"} }
    \cup { TextLine(x) : x \in {"+Foo", "+Bar"} }

\* A change of the diff: the line removed and the line added in its place.
ChangedLines == { ch \in PatchLines \X PatchLines : ch[1] # ch[2] }

DiffOutputs ==
    UNION { [1..n -> ChangedLines] : n \in 1..MaxChanges }

\* What the comparator keeps of a line: an index line without its SHAs, a
\* hunk header without its line numbers, any other line whole.
Significant(line) ==
    IF line.kind \in {"index", "hunk"} THEN [line EXCEPT !.id = ""] ELSE line

\* A variant of the comparator that also drops the mode bits.
MeaningfulDiffOutputAnyMode(diff_output) ==
    \E i \in 1..Len(diff_output) :
        LET a == Significant(diff_output[i][1])
            b == Significant(diff_output[i][2])
        IN  IF a.kind = "index" /\ b.kind = "index" THEN FALSE ELSE a # b

\* utils.meaningful_diff(source_path, dest_path, diff_output=...)
MeaningfulDiffOutput(diff_output) ==
    \E i \in 1..Len(diff_output) :
        Significant(diff_output[i][1]) # Significant(diff_output[i][2])

InitDiff ==
    /\ InitWorking
    /\ nameEmail = TRUE
    /\ series = <<>>
    /\ child = <<>>
    /\ files = NoFiles
    /\ prHead = [series |-> <<>>, files |-> NoFiles]
    /\ link = << "/p" >>
    /\ dirs = {"/p"}
    /\ arg \in DiffOutputs
    /\ out = <<>>

Compare ==
    /\ last.op = "init"
    /\ out' = << MeaningfulDiffOutput(arg) >>
    /\ last' = [op |-> "meaningful_diff", res |-> "", tried |-> <<>>]
    /\ UNCHANGED <<repos, link, dirs, arg>>

NextDiff == Compare

SpecDiff == InitDiff /\ [][NextDiff]_vars

\* An index line in place of an index line of the same mode bits, or a
\* hunk header in place of a hunk header of the same trailing text.
OnlyNoise(ch) ==
    \/ ch[1].kind = "index" /\ ch[2].kind = "index" /\ ch[1].rest = ch[2].rest
    \/ ch[1].kind = "hunk" /\ ch[2].kind = "hunk" /\ ch[1].rest = ch[2].rest

\* C26: the meaningful-diff comparator returns false exactly when every
\* changed line of the diff is an index line differing only in its SHAs
\* (same mode bits) or a hunk header differing only in its line numbers;
\* any other changed line makes it return true.
C26_MeaningfulDiffIgnoresOnlyNoise ==
    last.op = "meaningful_diff" =>
        (out = << FALSE >> <=> \A i \in 1..Len(arg) : OnlyNoise(arg[i]))

C26_Witness ==
    /\ last.op = "meaningful_diff"
    /\ out = << TRUE >>
    /\ \A i \in 1..Len(arg) : arg[i][1].kind = "index" /\ arg[i][2].kind = "index"

CheckNow == Check(Cur)

\* C27: check returns ok exactly when the names of the recursive series
\* are the *.patch files of the patch repo; otherwise it returns failed
\* with the series names that have no file as missing and the files that
\* have no series entry as orphans, two disjoint sets.
C27_CheckComparesSeriesWithFiles ==
    /\ CheckNow.status = "ok" <=> Range(SeriesNames) = DOMAIN files
    /\ CheckNow.status # "ok" =>
          /\ CheckNow.status = "failed"
          /\ CheckNow.no_file = { n \in Range(SeriesNames) : n \notin DOMAIN files }
          /\ CheckNow.no_series_entry = { n \in DOMAIN files : ~Contains(SeriesNames, n) }
          /\ CheckNow.no_file \cap CheckNow.no_series_entry = {}

C27_Witness ==
    /\ CheckNow.status = "failed"
    /\ CheckNow.no_series_entry # {}
    /\ last.op \in PlyOps

\* The branch is m saved, unchanged patches, applied in series order
\* right above the last upstream commit, with k new commits on top.
SavedThenNew(m, k) ==
    LET base == LastUpstream(commits)
    IN  /\ ~dirty /\ ~PatchRepoUncommitted(Cur)
        /\ conflict = NoPatch /\ ~session.on /\ nameEmail
        /\ base # 0
        /\ Len(commits) = base + m + k
        /\ Len(SeriesNames) = m
        /\ \A i \in 1..m :
              /\ commits[base + i].p = SeriesNames[i]
              /\ SeriesNames[i] \in DOMAIN files
              /\ files[SeriesNames[i]] = PatchOf(commits, base + i)
        /\ \A i \in 1..k : commits[base + m + i].p = NoPatch

\* C28: a save over m saved, unchanged patches plus k new commits counts
\* the k commits as added and nothing as updated or removed in the
\* message of the patch-repo commit, and leaves no generated patch file
\* in the working-repo directory.
C28_SaveCountsNewPatches ==
    \A m \in 1..MaxCommits, k \in 1..MaxCommits :
        SavedThenNew(m, k) =>
            LET r == SaveOp(Cur, 0)
            IN  /\ r.exc = ""
                /\ r.prMsg.kind = "Saving"
                /\ r.prMsg.n = <<k, 0, 0>>
                /\ r.wfiles = NoFiles

-----------------------------------------------------------------------------
(* Series files that include series files.  The patch repo holds a series *)
(* file in its root and, in some runs, in sub, in deep and in sub/deep; a  *)
(* directory is named by its path relative to the root of the patch repo.  *)

Inc(dir) == << "-i", dir >>

Plain(base) == << "", base >>

\* os.path.join of two relative directories
JoinDir(a, b) ==
    IF a = "" THEN b
    ELSE IF b = "" THEN a
    ELSE IF a = "sub" /\ b = "deep" THEN "sub/deep"
    ELSE "elsewhere"

RootSeries ==
    { << Plain("a") >>,
      << Plain("a"), Inc("sub"), Plain("b") >>,
      << Inc("sub"), Plain("b") >>,
      << Inc("deep"), Plain("a") >> }

SubSeries ==
    { << Plain("c") >>,
      << Plain("c"), Inc("deep") >>,
      << Inc("deep"), Plain("c") >> }

LeafSeries == { <<>>, << Plain("x") >>, << Plain("y"), Plain("x") >> }

\* Every include of the series file in dir names a directory, relative to
\* dir, that holds a series file.
IncludesExist(fs) ==
    \A dir \in DOMAIN fs : \A i \in 1..Len(fs[dir]) :
        fs[dir][i][1] = "-i" => JoinDir(dir, fs[dir][i][2]) \in DOMAIN fs

\* The series files of a patch repo: directory -> entries; a leaf
\* directory without entries has no series file.
SeriesFiles ==
    { fs \in
        { [d \in {"", "sub"} \cup { l \in {"deep", "sub/deep"} :
                                      (IF l = "deep" THEN dp ELSE sd) # <<>> } |->
              IF d = "" THEN r ELSE IF d = "sub" THEN s
              ELSE IF d = "deep" THEN dp ELSE sd] :
            r \in RootSeries, s \in SubSeries, dp \in LeafSeries, sd \in LeafSeries } :
        IncludesExist(fs) }

\* PatchRepo._recursive_series from entry i of the series file in dir: the
\* child series file is opened at os.path.join(self.path, series_rel_path).
RECURSIVE RecursiveSeries(_, _, _)
RecursiveSeries(fs, dir, i) ==
    IF dir \notin DOMAIN fs THEN [exc |-> "IOError", names |-> <<>>]
    ELSE IF i > Len(fs[dir]) THEN [exc |-> "", names |-> <<>>]
    ELSE LET e    == fs[dir][i]
             c    == RecursiveSeries(fs, e[2], 1)
             head == IF e[1] # "-i" THEN [exc |-> "", names |-> << e >>]
                     ELSE [exc |-> c.exc,
                           names |-> [j \in 1..Len(c.names) |->
                                        << JoinDir(e[2], c.names[j][1]), c.names[j][2] >>]]
             rest == RecursiveSeries(fs, dir, i + 1)
         IN  IF head.exc # "" THEN head
             ELSE IF rest.exc # "" THEN rest
             ELSE [exc |-> "", names |-> head.names \o rest.names]

InitSeries ==
    /\ InitWorking
    /\ nameEmail = TRUE
    /\ series = <<>>
    /\ child = <<>>
    /\ files = NoFiles
    /\ prHead = [series |-> <<>>, files |-> NoFiles]
    /\ link = << "/p" >>
    /\ dirs = {"/p"}
    /\ arg \in SeriesFiles
    /\ out = <<>>

\* PatchRepo.series
ReadSeries ==
    /\ last.op = "init"
    /\ LET r == RecursiveSeries(arg, "", 1)
       IN  /\ out' = r.names
           /\ last' = [op |-> "series", res |-> r.exc, tried |-> <<>>]
    /\ UNCHANGED <<repos, link, dirs, arg>>

NextSeries == ReadSeries

SpecSeries == InitSeries /\ [][NextSeries]_vars

\* The enumeration the series files describe: entries left to right, an
\* include replaced in place by the enumeration of the series file in the
\* included directory, taken relative to the including file, each name
\* prefixed with that directory.
RECURSIVE DepthFirst(_, _, _)
DepthFirst(fs, dir, i) ==
    IF dir \notin DOMAIN fs \/ i > Len(fs[dir]) THEN <<>>
    ELSE LET e == fs[dir][i]
             c == DepthFirst(fs, JoinDir(dir, e[2]), 1)
         IN  (IF e[1] # "-i" THEN << e >>
              ELSE [j \in 1..Len(c) |-> << JoinDir(e[2], c[j][1]), c[j][2] >>])
             \o DepthFirst(fs, dir, i + 1)

\* C29: the recursive series enumeration yields the patch names depth
\* first, left to right: an include entry is replaced in place by the
\* names of the child series, each prefixed with the directory of the
\* included file, and for nested includes the child series file read is
\* the one in the directory the prefix names.
C29_SeriesIsDepthFirst ==
    last.op = "series" =>
        /\ last.res = ""
        /\ out = DepthFirst(arg, "", 1)

-----------------------------------------------------------------------------
(* Rewording an applied commit.                                            *)

Subjects == { uc.s : uc \in UserCommits }

\* git commit --amend of HEAD with only the subject line edited: the rest
\* of the message, the Ply-Patch annotation included, stays.
Reword ==
    /\ Quiet
    /\ commits[Len(commits)].k = "dn"
    /\ \E sb \in Subjects :
         /\ sb # commits[Len(commits)].s
         /\ commits' = [commits EXCEPT ![Len(commits)].s = sb]
    /\ last' = Env
    /\ saved' = NoSaved
    /\ UNCHANGED <<dirty, session, conflict, stats, wfiles, nameEmail,
                   series, child, files, prHead, prMsg>>
    /\ UNCHANGED aux

NextReword == Save \/ Restore \/ UserCommit \/ Reword

SpecReword == Init /\ [][NextReword]_vars

\* C30: a save that regenerates the patch of a commit carrying a Ply-Patch
\* annotation stores it under the annotated name, not under a name derived
\* from the subject: after the save the annotated name is still an entry
\* of the series and a file of the patch repo, and the commit still
\* carries it.
C30_SaveKeepsAnnotatedName ==
    (/\ ~dirty /\ ~PatchRepoUncommitted(Cur)
     /\ conflict = NoPatch /\ ~session.on /\ nameEmail) =>
        LET r == SaveOp(Cur, 0)
        IN  r.exc = "" =>
                \A i \in (LastUpstream(commits) + 1)..Len(commits) :
                    commits[i].p # NoPatch =>
                        /\ commits[i].p \in Range(RecSeries(r))
                        /\ commits[i].p \in DOMAIN r.files
                        /\ r.commits[i].p = commits[i].p

-----------------------------------------------------------------------------
(* Applied-patch detection with a small bound.                             *)

MaxHist == 5
MaxBound == 2

\* The branch with commit i annotated iff i \in ann.
HistoryOf(n, ann) ==
    [i \in 1..n |-> [k |-> IF i = 1 THEN "up" ELSE "dn", c |-> 0, s |-> "",
                     p |-> IF i \in ann THEN <<"", "a">> ELSE NoPatch]]

Histories == { HistoryOf(n, ann) : n \in 1..MaxHist, ann \in SUBSET (1..MaxHist) }

InitApplied ==
    /\ InitWorking
    /\ nameEmail = TRUE
    /\ series = <<>>
    /\ child = <<>>
    /\ files = NoFiles
    /\ prHead = [series |-> <<>>, files |-> NoFiles]
    /\ link = << "/p" >>
    /\ dirs = {"/p"}
    /\ arg \in { [cs |-> h, b |-> b] : h \in Histories, b \in 0..MaxBound }
    /\ out = <<>>

\* WorkingRepo._applied_patches(new_upper_bound=b) on the branch cs
DetectApplied ==
    /\ last.op = "init"
    /\ out' = AppliedWalk(arg.cs, Len(arg.cs), <<>>, arg.b)
    /\ last' = [op |-> "applied_patches", res |-> "", tried |-> <<>>]
    /\ UNCHANGED <<repos, link, dirs, arg>>

NextApplied == DetectApplied

SpecApplied == InitApplied /\ [][NextApplied]_vars

\* The newest annotated commit of a branch, 0 if there is none.
TopAnnotated(cs) ==
    IF \A i \in 1..Len(cs) : cs[i].p = NoPatch THEN 0
    ELSE CHOOSE i \in 1..Len(cs) :
             cs[i].p # NoPatch /\ \A j \in (i+1)..Len(cs) : cs[j].p = NoPatch

\* The oldest commit of region A: the annotated block that ends at top.
BottomOfA(cs, top) ==
    CHOOSE i \in 1..top :
        /\ \A j \in i..top : cs[j].p # NoPatch
        /\ (i > 1 => cs[i-1].p = NoPatch)

\* Region A as (commit, patch name) pairs, newest first.
RegionA(cs) ==
    LET top == TopAnnotated(cs)
    IN  IF top = 0 THEN <<>>
        ELSE [j \in 1..(top - BottomOfA(cs, top) + 1) |->
                 << top - j + 1, cs[top - j + 1].p >>]

NewAbove(cs) == Len(cs) - TopAnnotated(cs)

\* C31: applied-patch detection with bound B returns all of region A,
\* newest first, when at most B unannotated commits lie above A, and the
\* empty list when more than B do; it stops at the first unannotated
\* commit below an annotated one and ends at the root commit.
C31_AppliedWithinBound ==
    last.op = "applied_patches" =>
        out = IF NewAbove(arg.cs) <= arg.b THEN RegionA(arg.cs) ELSE <<>>

\* The bound is met exactly, and a second annotated block lies below an
\* unannotated commit under region A.
C31_Witness ==
    /\ last.op = "applied_patches"
    /\ arg.b > 0
    /\ NewAbove(arg.cs) = arg.b
    /\ out # <<>>
    /\ Len(out) < Cardinality({ i \in 1..Len(arg.cs) : arg.cs[i].p # NoPatch })

-----------------------------------------------------------------------------
(* The restore counters and the way out of a conflict.                     *)

\* How many patches of the log met the given outcome of git am.
CountTried(log, outcome) ==
    Cardinality({ i \in 1..Len(log) : log[i][2] = outcome })

ReentersRestore == {"restore", "resolve", "skip"}

\* C32: across one restore, however often it is interrupted, the counters
\* behind the default commit message are the number of did-not-apply
\* conflicts (updated) and of already-applied removals (removed) since the
\* restore began; the stats file is deleted when the restore completes or
\* is aborted, so the next restore starts from 0 and 0.
C32_StatsCountTheRestore ==
    /\ [](conflict = NoPatch => stats = <<>>)
    /\ [][last'.op \in ReentersRestore =>
            LET failed  == CountTried(last'.tried, "failed")
                already == CountTried(last'.tried, "already")
                total   == << StatsOf(stats)[1] + failed, StatsOf(stats)[2] + already >>
            IN  /\ conflict' # NoPatch => stats' = total
                /\ (last'.res = "" /\ conflict' = NoPatch) =>
                      /\ stats' = <<>>
                      /\ prHead' # prHead =>
                            /\ prMsg'.kind = "Refreshing"
                            /\ prMsg'.n = << 0, total[1], total[2] >>]_vars
    /\ [][(last'.op = "abort" /\ last'.res = "") => stats' = <<>>]_vars

\* A patch repo of two or three patches of which upstream has rewritten
\* what two touch: a restore over it can stop more than once.
StoredPatches ==
    [n \in { <<"", "a">>, <<"", "b">>, <<"", "d">> } |->
        IF n[2] = "a" THEN [c |-> 1, s |-> "a", x |-> 0]
        ELSE IF n[2] = "b" THEN [c |-> 2, s |-> "b", x |-> 0]
        ELSE ChildPatch]

SeriesOver(names) ==
    { q \in [1..Cardinality(names) -> names] :
         \A i, j \in 1..Cardinality(names) : q[i] = q[j] => i = j }

ClashingUpstream ==
    << BaseCommit, [k |-> "clash", c |-> 1, s |-> "", p |-> NoPatch],
       [k |-> "clash", c |-> 3, s |-> "", p |-> NoPatch] >>

InitConflicts ==
    /\ InitWorking
    /\ nameEmail = TRUE
    /\ \E names \in SUBSET (DOMAIN StoredPatches) :
         /\ Cardinality(names) >= 2
         /\ series \in SeriesOver(names)
         /\ files = [n \in names |-> StoredPatches[n]]
    /\ child = <<>>
    /\ prHead = [series |-> series, files |-> files]
    /\ Linked

\* Upstream moves on under the linked patch repo.
UpstreamClashes ==
    /\ last.op = "init"
    /\ commits' = ClashingUpstream
    /\ last' = Env
    /\ UNCHANGED <<dirty, session, conflict, stats, wfiles, nameEmail,
                   series, child, files, prHead, prMsg, saved>>
    /\ UNCHANGED aux

NextConflicts ==
    \/ UpstreamClashes
    \/ Restore
    \/ Resolve
    \/ Skip
    \/ Abort
    \/ FixConflict

SpecConflicts == InitConflicts /\ [][NextConflicts]_vars

\* The series entries that no commit of the branch is known to carry.
NotYetApplied == Range(Expand(series, child)) \ AppliedNames(commits)

Remaining == Cardinality(NotYetApplied)

\* A resolve or skip that succeeded: it ended the restore, or the restore
\* it re-invoked went on to another patch and stopped there.
Answered(l) ==
    /\ l.op \in {"resolve", "skip"}
    /\ \/ l.res = ""
       \/ l.res = "PatchDidNotApplyCleanly" /\ l.tried # <<>>

\* C33: a restore whose conflicts are each answered by a successful resolve
\* or skip completes after at most as many conflicts as the series has
\* entries: each resolve or skip strictly decreases the number of series
\* entries not yet applied, the re-invoked restore does not conflict again
\* on the patch just resolved or skipped, and when it completes neither
\* the sentinel nor the stats file is left.
C33_ResolveAndSkipMakeProgress ==
    [][Answered(last') =>
          /\ Remaining' < Remaining
          /\ conflict' # conflict
          /\ \A i \in 1..Len(last'.tried) : last'.tried[i][1] # conflict
          /\ conflict' # NoPatch => conflict' \in NotYetApplied'
          /\ last'.res = "" => (conflict' = NoPatch /\ stats' = <<>>)]_vars

\* A resolve or skip after which the restore stopped on a later patch.
C33_Witness ==
    /\ Answered(last)
    /\ last.res = "PatchDidNotApplyCleanly"
    /\ conflict # NoPatch
    /\ StatsOf(stats)[1] = 2

-----------------------------------------------------------------------------
(* Where save puts the batch, and how sync_patches classifies.             *)

\* Both repos are clean, no restore is in progress and git knows the user.
ReadyToSave ==
    /\ ~dirty /\ ~PatchRepoUncommitted(Cur)
    /\ conflict = NoPatch /\ ~session.on /\ nameEmail

SinceRefs == {0} \cup (TopUpstream..Len(commits))

\* The commit a save starts from: the ref given, or the last upstream one.
SaveFrom(since) == IF since = 0 THEN LastUpstream(commits) ELSE since

\* C34: save with a since ref that is an applied commit annotated with
\* patch p leaves the series up to and including p and the patch files of
\* that prefix unchanged and splices the new batch right after p; save
\* with a since ref that carries no annotation splices the batch at the
\* head of the series and removes every previous entry not in the batch.
C34_SaveSplicesAfterParent ==
    \A since \in SinceRefs :
        (ReadyToSave /\ SaveFrom(since) # 0) =>
            LET from  == SaveFrom(since)
                r     == SaveOp(Cur, since)
                batch == SourcePaths(commits, from)
                p     == commits[from].p
            IN  /\ (p # NoPatch /\ p \in AppliedNames(commits)
                                 /\ Contains(RecSeries(Cur), p)) =>
                      /\ r.exc = ""
                      /\ Contains(series, p)
                      /\ LET i == IndexOf(series, p)
                         IN  /\ SubSeq(r.series, 1, i) = SubSeq(series, 1, i)
                             /\ \A j \in 1..i :
                                   series[j] \in DOMAIN files =>
                                      /\ series[j] \in DOMAIN r.files
                                      /\ r.files[series[j]] = files[series[j]]
                             /\ SubSeq(r.series, i + 1, i + Len(batch)) = batch
                /\ p = NoPatch =>
                      /\ r.exc = ""
                      /\ SubSeq(r.series, 1, Len(batch)) = batch
                      /\ Range(r.series) \subseteq Range(batch)

\* What sync_patches makes of the batch that save(since) hands to it.
ChangedBySave(since) ==
    DetermineWhatChanged(CreatePatches(Cur, SaveFrom(since)),
                         SourcePaths(commits, SaveFrom(since)),
                         ParentPatchName(commits, SaveFrom(since)))

\* The classification d of the sources against the patch repo of s.
Classified(d, s, sources) ==
    /\ \A n \in Range(sources) : n \in d.added <=> n \notin Range(RecSeries(s))
    /\ d.added \cap d.updated = {}
    /\ d.added \cap d.skipped = {}
    /\ d.added \cap d.removed = {}
    /\ d.updated \cap d.skipped = {}
    /\ d.updated \cap d.removed = {}
    /\ d.skipped \cap d.removed = {}
    /\ (Range(sources) \cup Range(RecSeries(s))) \subseteq
           (d.added \cup d.updated \cup d.skipped \cup d.removed)

\* C35: sync_patches classifies a source as added iff its name is not in
\* the series, and added, updated, skipped and removed are pairwise
\* disjoint and together cover every source name and every previous
\* series entry.
C35_SyncClassifiesEveryName ==
    \A since \in SinceRefs :
        (ReadyToSave /\ SaveFrom(since) # 0) =>
            Classified(ChangedBySave(since), Cur,
                       SourcePaths(commits, SaveFrom(since)))

-----------------------------------------------------------------------------
(* The health of the patch repo across operations.                         *)

\* The operation just made completed, or stopped on a conflict.
CompletedOrConflict(l) ==
    /\ l.op \in {"save", "restore", "resolve", "skip", "abort", "rollback"}
    /\ \/ l.res = ""
       \/ l.res = "PatchDidNotApplyCleanly" /\ l.tried # <<>>

\* C36: from a patch repo for which check returns ok, check still returns
\* ok after every ply operation that completes or stops on a conflict: no
\* operation leaves a series entry without its patch file or a patch file
\* without its series entry.
C36_OperationsKeepCheckOk ==
    [][(CheckNow.status = "ok" /\ CompletedOrConflict(last')) =>
          CheckNow'.status = "ok"]_vars

\* A save, resolve or skip that changed the patch repo and left it healthy.
C36_Witness ==
    /\ CompletedOrConflict(last)
    /\ last.op \in {"save", "resolve", "skip"}
    /\ CheckNow.status = "ok"
    /\ prMsg.kind # "init"
    /\ files # NoFiles

-----------------------------------------------------------------------------
(* A git am subcommand that fails.                                         *)

\* The git am flag behind an operation.
MethodOf(op) ==
    IF op = "resolve" THEN "resolved" ELSE IF op = "skip" THEN "skip" ELSE "abort"

\* The operation op, called now, gets as far as git am, and git am fails.
AmWouldFail(op) ==
    /\ op \in {"resolve", "skip", "abort"}
    /\ conflict # NoPatch
    /\ AmResume(Cur, MethodOf(op)).exc # ""

\* C37: when the git am subcommand behind resolve, skip or abort fails,
\* the conflict sentinel and the stats file are left as they were, the
\* series is unchanged, and the working repo is still in
\* restore-in-progress, so the operation can be retried.
C37_FailedAmLeavesConflict ==
    [][AmWouldFail(last'.op) =>
          /\ last'.res = "PatchDidNotApplyCleanly"
          /\ conflict' = conflict
          /\ stats' = stats
          /\ series' = series
          /\ files' = files
          /\ Status(Cur)' = "restore-in-progress"]_vars

\* resolve was called with the conflict still unresolved.
C37_Witness ==
    /\ last.op = "resolve"
    /\ last.res = "PatchDidNotApplyCleanly"
    /\ last.tried = <<>>
    /\ session.on /\ ~session.fixed
    /\ conflict # NoPatch
    /\ stats # <<>>

\* C38: between ply operations, whenever the conflict sentinel exists the
\* stats file exists too and holds updated >= 1, so that the unconditional
\* deletion of the stats file by abort cannot fail.
C38_SentinelComesWithStats ==
    /\ conflict # NoPatch => (stats # <<>> /\ stats[1] >= 1)
    /\ last.op = "abort" => last.res # "OSError"

\* A stop on a conflict that was not the first of its restore.
C38_Witness ==
    /\ conflict # NoPatch
    /\ stats # <<>>
    /\ stats[1] = MaxStats

\* C39: after abort the patch repo has no staged or uncommitted changes:
\* what the aborted restore did to the series and the patch files (by
\* already-applied detection, skip or resolve) is not left pending, and a
\* following save is not rejected with UncommittedChanges.
C39_AbortLeavesPatchRepoClean ==
    (last.op = "abort" /\ last.res = "") =>
        /\ ~PatchRepoUncommitted(Cur)
        /\ SaveOp(Cur, 0).exc # "UncommittedChanges"

\* C40: a save of k commits since the given ref adds or refreshes k
\* distinct series entries, one per commit, and after the save exactly
\* those k commits are re-created with annotations, also when two of the
\* commits yield the same generated patch file name.
C40_SaveGivesEachCommitItsEntry ==
    \A since \in SinceRefs :
        (ReadyToSave /\ SaveFrom(since) # 0 /\ SaveFrom(since) < Len(commits)) =>
            LET from  == SaveFrom(since)
                r     == SaveOp(Cur, since)
                batch == (from + 1)..Len(commits)
            IN  /\ r.exc = ""
                /\ Len(r.commits) = Len(commits)
                /\ \A i \in batch :
                      /\ r.commits[i].c = commits[i].c
                      /\ r.commits[i].p # NoPatch
                      /\ Contains(RecSeries(r), r.commits[i].p)
                      /\ r.commits[i].p \in DOMAIN r.files
                      /\ r.files[r.commits[i].p] = PatchOf(commits, i)
                /\ \A i, j \in batch :
                      r.commits[i].p = r.commits[j].p => i = j

====
